---- MODULE Spec2Model ----
(***************************************************************************)
(* Model of the change-point detection and regime-labeling pipeline:       *)
(*   Backend/services/db_data_loader.py            (sliding windows)        *)
(*   Backend/services/global_change_point_detector.py (scan, consolidation) *)
(*   Backend/src/dual_change_point_model.py        (window handed to MCMC)  *)
(*   Backend/services/regime_labeler.py            (daily regime labels)    *)
(*                                                                         *)
(* Dates are day numbers (integers).  Volatilities are integers in units   *)
(* of 1e-5 once rounded (round(sigma, 5)) and in units of 1e-6 before;     *)
(* confidences are integers in units of 1e-4 once rounded (round(c, 4))    *)
(* and in units of 1e-5 before.                                            *)
(***************************************************************************)
EXTENDS Integers, Sequences, FiniteSets, TLC

VARIABLES
    pc,                       \* phase of the operation in progress
    detected_change_points,   \* GlobalChangePointDetector.detected_change_points
    consolidated,             \* result of _consolidate_detections
    cluster_log,              \* the clusters closed by _consolidate_detections, in order
    reconsolidated,           \* _consolidate_detections applied to its own result
    prices_df,                \* the index (dates, ascending) of the series being scanned
    window_size,              \* window_size in days
    step_size,                \* step_size in days
    current_start,            \* get_sliding_windows: current_start
    windows,                  \* the windows yielded so far, in order
    market_data,              \* table market_data: rows (date, price) ordered by date
    db_change_points,         \* table detected_change_points, in insertion order
    min_confidence,           \* GlobalChangePointDetector.min_confidence (1e-4)
    idx,                      \* run_global_scan: windows processed so far
    scan_log,                 \* what happened in each processed window
    last_analysis,            \* the trace and the change point of the latest window
    result,                   \* the records returned by the scan or the update
    regimes,                  \* RegimeLabeler.regimes: one row per labeled day
    known_events,             \* table events: rows ordered by event_date
    validation_results,       \* what validate_detections returned
    db_regimes                \* table regimes, as committed

consVars == <<detected_change_points, consolidated, cluster_log, reconsolidated>>
winVars == <<prices_df, window_size, step_size, current_start, windows>>
scanVars == <<market_data, db_change_points, min_confidence, idx, scan_log,
              last_analysis, result, regimes>>

vars == <<pc, detected_change_points, consolidated, cluster_log, reconsolidated,
          prices_df, window_size, step_size, current_start, windows,
          market_data, db_change_points, min_confidence, idx, scan_log,
          last_analysis, result, regimes, known_events, validation_results,
          db_regimes>>

valVars == <<known_events, validation_results>>
saveVars == <<db_regimes>>

\* The parts of the state an operation does not use.
ValIdle ==
    /\ known_events = <<>>
    /\ validation_results = [status |-> "not_run"]

SaveIdle == db_regimes = <<>>

ConsIdle ==
    /\ detected_change_points = <<>>
    /\ consolidated = <<>>
    /\ cluster_log = <<>>
    /\ reconsolidated = <<>>

WinIdle ==
    /\ prices_df = <<>>
    /\ window_size = 0
    /\ step_size = 0
    /\ current_start = 0
    /\ windows = <<>>

(***************************************************************************)
(* Bounds of the model.                                                    *)
(***************************************************************************)
MaxCand == 3          \* candidates handed to the consolidator
MaxDay == 330         \* last day a series can reach
MaxCrises == 2        \* crisis records in the table read by the labeler
MaxLabelDay == 120    \* last day of the longest series handed to the labeler
MaxEvents == 2        \* ground-truth events in the table read by the validation
MaxWindows == 8       \* windows the generator is followed for

(***************************************************************************)
(* Helpers on sequences.                                                   *)
(***************************************************************************)
Range(s) == {s[i] : i \in 1..Len(s)}

Abs(x) == IF x < 0 THEN -x ELSE x

(***************************************************************************)
(* _consolidate_detections  (global_change_point_detector.py 216-268)      *)
(***************************************************************************)
\* days_diff <= 60
OverlapDays == 60

\* sorted(..., key=lambda x: x['crisis_start_date']): a stable sort, each
\* element goes after every element whose key is not larger.
RECURSIVE InsertByStart(_, _)
InsertByStart(sorted, d) ==
    IF sorted = <<>> THEN <<d>>
    ELSE IF sorted[Len(sorted)].crisis_start_date <= d.crisis_start_date
         THEN Append(sorted, d)
         ELSE Append(InsertByStart(SubSeq(sorted, 1, Len(sorted) - 1), d),
                     sorted[Len(sorted)])

RECURSIVE SortByStart(_)
SortByStart(dets) ==
    IF dets = <<>> THEN <<>>
    ELSE InsertByStart(SortByStart(SubSeq(dets, 1, Len(dets) - 1)), dets[Len(dets)])

\* A plausible slip: keep the cluster's first member instead of the best one.
BestDetectionFirst(cluster) == cluster[1]

\* A plausible slip: among members of equal confidence the last one wins.
BestDetectionLast(cluster) ==
    cluster[CHOOSE i \in 1..Len(cluster) :
              /\ \A j \in 1..Len(cluster) :
                    cluster[j].detection_confidence <= cluster[i].detection_confidence
              /\ \A j \in (i + 1)..Len(cluster) :
                    cluster[j].detection_confidence < cluster[i].detection_confidence]

\* max(current_cluster, key=lambda x: x['detection_confidence']):
\* the first member whose confidence no member exceeds.
BestDetection(cluster) ==
    cluster[CHOOSE i \in 1..Len(cluster) :
              /\ \A j \in 1..Len(cluster) :
                    cluster[j].detection_confidence <= cluster[i].detection_confidence
              /\ \A j \in 1..(i - 1) :
                    cluster[j].detection_confidence < cluster[i].detection_confidence]

\* A plausible slip: measure the gap from the previous member, not the anchor.
ClusterStartPrevious(current_cluster) ==
    current_cluster[Len(current_cluster)].crisis_start_date

\* cluster_start = current_cluster[0]['crisis_start_date']
ClusterStart(current_cluster) == current_cluster[1].crisis_start_date

\* days_diff = abs((detection_start - cluster_start).days); days_diff <= 60
Overlapping(current_cluster, detection) ==
    Abs(detection.crisis_start_date - ClusterStart(current_cluster)) <= OverlapDays

\* A plausible slip: the cluster still open after the loop is never emitted.
CloseLastClusterForgotten(st) == st

\* "Don't forget the last cluster": lines 258-264.
CloseLastCluster(st) ==
    IF st.current_cluster # <<>>
    THEN [st EXCEPT !.consolidated = Append(@, BestDetection(st.current_cluster)),
                    !.clusters = Append(@, st.current_cluster)]
    ELSE st

\* The loop of lines 237-256 over sorted_detections[1:], from position i on.
\* st.clusters records each cluster as it is closed.
RECURSIVE ConsolidateLoop(_, _, _)
ConsolidateLoop(sorted_detections, i, st) ==
    IF i > Len(sorted_detections) THEN st
    ELSE LET detection == sorted_detections[i] IN
         IF Overlapping(st.current_cluster, detection)
         THEN ConsolidateLoop(sorted_detections, i + 1,
                  [st EXCEPT !.current_cluster = Append(@, detection)])
         ELSE ConsolidateLoop(sorted_detections, i + 1,
                  [st EXCEPT !.consolidated = Append(@, BestDetection(st.current_cluster)),
                             !.clusters = Append(@, st.current_cluster),
                             !.current_cluster = <<detection>>])

\* The whole of _consolidate_detections on a list of detections: the
\* consolidated list and the clusters it was chosen from.
ConsolidateRun(dets) ==
    IF dets = <<>> THEN [consolidated |-> <<>>, clusters |-> <<>>, current_cluster |-> <<>>]
    ELSE LET sorted_detections == SortByStart(dets) IN
         CloseLastCluster(
             ConsolidateLoop(sorted_detections, 2,
                 [consolidated |-> <<>>, clusters |-> <<>>,
                  current_cluster |-> <<sorted_detections[1]>>]))

ConsolidateDetections(dets) == ConsolidateRun(dets).consolidated

(***************************************************************************)
(* get_sliding_windows  (db_data_loader.py 116-146)                        *)
(***************************************************************************)
\* if len(window_df) >= 100
MinObservations == 100

\* prices_df.loc[a:b]: the rows dated from a to b, both ends included.
Slice(df, a, b) == SelectSeq(df, LAMBDA d : a <= d /\ d <= b)

\* prices_df.index.min(), prices_df.index.max() of an ascending index
IndexMin(df) == df[1]
IndexMax(df) == df[Len(df)]

\* A plausible slip: the window ends one day early.
WindowEndShort(start) == start + window_size - 1

\* current_end = current_start + pd.Timedelta(days=window_size)
WindowEnd(start) == start + window_size

\* A plausible slip: the next window starts where the last one ended.
NextStartAtEnd(start) == start + window_size

\* current_start = current_start + pd.Timedelta(days=step_size)
NextStart(start) == start + step_size

\* while current_start + pd.Timedelta(days=window_size) <= end_date
MoreWindows(start) == start + window_size <= IndexMax(prices_df)

\* The tuple yielded for a window.
WindowAt(start) ==
    [start_date |-> start, end_date |-> WindowEnd(start),
     window_df |-> Slice(prices_df, start, WindowEnd(start))]

\* One pass of the while loop: yield the window if it holds enough
\* observations, then advance current_start.
WindowStep ==
    /\ UNCHANGED valVars
    /\ UNCHANGED saveVars
    /\ pc = "generating"
    /\ MoreWindows(current_start)
    /\ Len(windows) < MaxWindows
    /\ windows' = IF Len(WindowAt(current_start).window_df) >= MinObservations
                  THEN Append(windows, WindowAt(current_start))
                  ELSE windows
    /\ current_start' = NextStart(current_start)
    /\ UNCHANGED <<pc, prices_df, window_size, step_size>>
    /\ UNCHANGED consVars
    /\ UNCHANGED scanVars

\* The while condition fails: the generator is exhausted.
WindowsDone ==
    /\ UNCHANGED valVars
    /\ UNCHANGED saveVars
    /\ pc = "generating"
    /\ ~MoreWindows(current_start)
    /\ pc' = "generated"
    /\ UNCHANGED winVars
    /\ UNCHANGED consVars
    /\ UNCHANGED scanVars

(***************************************************************************)
(* DualChangePointModel.analyze_event  (dual_change_point_model.py 16-75)  *)
(* and _analyze_window  (global_change_point_detector.py 135-154)          *)
(***************************************************************************)
\* window_days=self.window_size // 2
HalfWindow == window_size \div 2

\* center_date = start_date + (end_date - start_date) / 2, in half days
\* (the centre of a window of odd length falls on a noon).
CenterHalfDays(start_date, end_date) == 2 * start_date + (end_date - start_date)

\* window_df = self.data.loc[target_date - window_days : target_date + window_days],
\* the centre given in half days.
EventSlice(df, center2, window_days) ==
    SelectSeq(df, LAMBDA d : center2 - 2 * window_days <= 2 * d
                             /\ 2 * d <= center2 + 2 * window_days)

\* The posterior draws the sampler can return for a breakpoint with prior
\* DiscreteUniform(lower, upper): every draw lies in lower..upper.  Sharp at
\* either end, split between the ends, and spread over the support.
Tau1Posteriors(lower, upper) ==
    {<<lower, lower>>, <<upper, upper>>, <<upper, lower>>,
     <<lower, upper, (lower + upper) \div 2>>}

Tau2Posteriors(lower, upper) ==
    {<<lower, lower>>, <<upper, lower>>, <<lower, upper, (lower + upper) \div 2>>}

\* Posterior means of (sigma_1, sigma_2, sigma_3), units of 1e-6: a clear
\* crisis, no crisis, and a ratio barely above 1.5.
SigmaMeans ==
    {<<10000, 50000, 20000>>, <<10000, 14000, 10000>>, <<10006, 15004, 9999>>}

\* A plausible slip: the support of tau_2 starts where that of tau_1 ends.
TracesTouching(n_y) ==
    {[tau_1 |-> t1, tau_2 |-> t2, sigma_1 |-> sg[1], sigma_2 |-> sg[2], sigma_3 |-> sg[3]] :
        t1 \in Tau1Posteriors(0, n_y \div 2),
        t2 \in Tau2Posteriors(n_y \div 2, n_y - 1),
        sg \in SigmaMeans}

\* The traces pm.sample can return on n_y observations:
\* tau_1 ~ DiscreteUniform(0, len(y) // 2),
\* tau_2 ~ DiscreteUniform(len(y) // 2 + 1, len(y) - 1).
Traces(n_y) ==
    {[tau_1 |-> t1, tau_2 |-> t2, sigma_1 |-> sg[1], sigma_2 |-> sg[2], sigma_3 |-> sg[3]] :
        t1 \in Tau1Posteriors(0, n_y \div 2),
        t2 \in Tau2Posteriors(n_y \div 2 + 1, n_y - 1),
        sg \in SigmaMeans}

NoTrace == [tau_1 |-> <<>>, tau_2 |-> <<>>, sigma_1 |-> 0, sigma_2 |-> 0, sigma_3 |-> 0]

\* What analyze_event can do on the slice around center2: return (None, None)
\* when the slice holds fewer than 100 rows, raise inside the sampler, or
\* return a trace with the slice it sampled on.
AnalyzeEventOutcomes(df, center2, window_days) ==
    LET window_df == EventSlice(df, center2, window_days) IN
    IF Len(window_df) < MinObservations
    THEN {[kind |-> "none", trace |-> NoTrace, window_df |-> <<>>]}
    ELSE {[kind |-> "raise", trace |-> NoTrace, window_df |-> <<>>]}
         \cup {[kind |-> "trace", trace |-> tr, window_df |-> window_df] :
                  tr \in Traces(Len(window_df))}

(***************************************************************************)
(* _extract_change_point  (global_change_point_detector.py 156-214)        *)
(***************************************************************************)
RECURSIVE SeqSum(_)
SeqSum(xs) == IF xs = <<>> THEN 0 ELSE Head(xs) + SeqSum(Tail(xs))

RECURSIVE SortAsc(_)
SortAsc(xs) ==
    IF xs = <<>> THEN <<>>
    ELSE LET m == CHOOSE i \in 1..Len(xs) : \A j \in 1..Len(xs) : xs[i] <= xs[j] IN
         <<xs[m]>> \o SortAsc([k \in 1..(Len(xs) - 1) |-> IF k < m THEN xs[k] ELSE xs[k + 1]])

\* int(posterior.median()): the middle draw, or the mean of the two middle
\* draws truncated to an integer.
MedianIndex(draws) ==
    LET srt == SortAsc(draws)
        n == Len(draws) IN
    IF n % 2 = 1 THEN srt[(n + 1) \div 2]
    ELSE (srt[n \div 2] + srt[n \div 2 + 1]) \div 2

\* window_df.index[i]: the date of the row at position i (from 0).
IndexAt(window_df, i) == window_df[i + 1]

RECURSIVE ISqrtIter(_, _)
ISqrtIter(n, x) ==
    LET y == (x + n \div x) \div 2 IN
    IF y >= x THEN x ELSE ISqrtIter(n, y)

\* The integer part of the square root.
ISqrt(n) == IF n = 0 THEN 0 ELSE ISqrtIter(n, n)

\* posterior.std() (population standard deviation), in units of 1e-2,
\* truncated: sqrt(N * sum(x^2) - sum(x)^2) / N.
Std100(draws) ==
    LET n == Len(draws)
        sq == [i \in 1..n |-> draws[i] * draws[i]] IN
    ISqrt((n * SeqSum(sq) - SeqSum(draws) * SeqSum(draws)) * 10000) \div n

\* max_std = len(window_df) / 4; confidence = max(0, 1 - std / max_std),
\* in units of 1e-5.
BreakConfidence(draws, n_rows) ==
    LET c == 100000 - (Std100(draws) * 4000) \div n_rows IN
    IF c < 0 THEN 0 ELSE c

\* A plausible slip: the two confidences are added and never halved.
AvgConfidenceSum(c1, c2) == c1 + c2

\* avg_confidence = (confidence_1 + confidence_2) / 2
AvgConfidence(c1, c2) == (c1 + c2) \div 2

\* round(x, k), x given in units ten times finer than the result: to the
\* nearest unit, a tie to the even one.
RoundTenth(x) ==
    LET q == x \div 10
        r == x % 10 IN
    IF r < 5 THEN q
    ELSE IF r > 5 THEN q + 1
    ELSE IF q % 2 = 0 THEN q ELSE q + 1

\* f"{volatility_ratio:.2f}": sigma_2 / ((sigma_1 + sigma_3) / 2) in units
\* of 1e-2, to the nearest unit.
RatioHundredths(s1, s2, s3) == (400 * s2 + (s1 + s3)) \div (2 * (s1 + s3))

\* A plausible slip: the ratio gate is set at 1.2 instead of 1.5.
RatioTooLowLoose(s1, s2, s3) == 10 * s2 < 6 * (s1 + s3)

\* volatility_ratio < 1.5, with volatility_ratio = sigma_2 / ((sigma_1 + sigma_3) / 2)
RatioTooLow(s1, s2, s3) == 4 * s2 < 3 * (s1 + s3)

NoChangePoint ==
    [crisis_start_date |-> -1, crisis_end_date |-> -1,
     volatility_pre |-> 0, volatility_crisis |-> 0, volatility_post |-> 0,
     detection_confidence |-> 0, window_size_days |-> 0,
     notes |-> [window_start |-> -1, window_end |-> -1, vol_ratio |-> 0]]

NoAnalysis == [trace |-> NoTrace, change_point |-> NoChangePoint]

ScanIdle ==
    /\ market_data = <<>>
    /\ db_change_points = <<>>
    /\ min_confidence = 0
    /\ idx = 0
    /\ scan_log = <<>>
    /\ last_analysis = NoAnalysis
    /\ result = <<>>
    /\ regimes = <<>>

\* _extract_change_point(trace, window_df, start_date, end_date): the change
\* point, or NoChangePoint for None (an index outside window_df or a zero
\* denominator raises and is caught; the ratio gate returns None).
ExtractChangePoint(trace, window_df, start_date, end_date) ==
    LET t1_idx == MedianIndex(trace.tau_1)
        t2_idx == MedianIndex(trace.tau_2)
        n_rows == Len(window_df) IN
    IF t1_idx >= n_rows \/ t2_idx >= n_rows THEN NoChangePoint
    ELSE IF n_rows = 0 \/ trace.sigma_1 + trace.sigma_3 = 0 THEN NoChangePoint
    ELSE IF RatioTooLow(trace.sigma_1, trace.sigma_2, trace.sigma_3) THEN NoChangePoint
    ELSE [crisis_start_date |-> IndexAt(window_df, t1_idx),
          crisis_end_date |-> IndexAt(window_df, t2_idx),
          volatility_pre |-> RoundTenth(trace.sigma_1),
          volatility_crisis |-> RoundTenth(trace.sigma_2),
          volatility_post |-> RoundTenth(trace.sigma_3),
          detection_confidence |->
              RoundTenth(AvgConfidence(BreakConfidence(trace.tau_1, n_rows),
                                       BreakConfidence(trace.tau_2, n_rows))),
          window_size_days |-> window_size,
          notes |-> [window_start |-> start_date, window_end |-> end_date,
                     vol_ratio |-> RatioHundredths(trace.sigma_1, trace.sigma_2,
                                                   trace.sigma_3)]]

(***************************************************************************)
(* prepare_price_data_for_bayesian  (db_data_loader.py 15-56)              *)
(***************************************************************************)
\* A NULL of the column price (DECIMAL(10, 2), nullable), read as NaN.
NULL == -1

NaN == [kind |-> "nan", value |-> 0]
Inf == [kind |-> "inf", value |-> 0]
Finite(v) == [kind |-> "num", value |-> v]

\* np.log(price / price.shift(1)) for one row.  A missing operand gives NaN,
\* 0/0 gives NaN, x/0 gives inf and log(0) gives -inf.  Finite returns are
\* exact in units of ln 2 for the prices the model uses.
LogReturn(prev, cur) ==
    IF prev = NULL \/ cur = NULL THEN NaN
    ELSE IF prev = 0 THEN (IF cur = 0 THEN NaN ELSE Inf)
    ELSE IF cur = 0 THEN Inf
    ELSE CASE cur = prev -> Finite(0)
           [] cur = 2 * prev -> Finite(1)
           [] prev = 2 * cur -> Finite(-1)

\* Lines 28-44: load_market_data(start_date), the rows dated start_date or
\* later, with their log returns; dropna removes every row whose log return
\* is NaN, the first one included.
PreparedRows(start_date) ==
    LET rows == SelectSeq(market_data, LAMBDA r : r.date >= start_date)
        returns == [k \in 1..Len(rows) |->
                       [date |-> rows[k].date,
                        Log_Return |-> IF k = 1 THEN NaN
                                       ELSE LogReturn(rows[k - 1].price, rows[k].price)]]
    IN SelectSeq(returns, LAMBDA r : r.Log_Return.kind # "nan")

\* The index of the prepared frame (empty when there is no market data).
PreparePriceData(start_date) ==
    LET rows == PreparedRows(start_date) IN [k \in 1..Len(rows) |-> rows[k].date]

(***************************************************************************)
(* validate_data_quality  (db_data_loader.py 149-188)                      *)
(***************************************************************************)
OutlierFactor == 10

\* The sum of the numbers of a sequence, taken value by value: each of the
\* given distinct values times the number of its occurrences.
RECURSIVE WeightedSum(_, _)
WeightedSum(values, numbers) ==
    IF values = {} THEN 0
    ELSE LET v == CHOOSE x \in values : TRUE
         IN v * Cardinality({k \in 1..Len(numbers) : numbers[k] = v})
            + WeightedSum(values \ {v}, numbers)

\* Series.sum()
SumOver(numbers) == WeightedSum(Range(numbers), numbers)

\* Lines 166-168: the rows with |r - mean| > 10 * std (sample deviation).
\* With n rows, sum S and sum of squares Q this is
\* (n r - S)^2 (n - 1) > 100 n (n Q - S^2); with an infinite return or a
\* single row the deviation is NaN and no comparison is true.
Outliers(rows) ==
    LET n == Len(rows)
        S == SumOver([k \in 1..n |-> rows[k].Log_Return.value])
        Q == SumOver([k \in 1..n |-> rows[k].Log_Return.value * rows[k].Log_Return.value])
    IN IF n < 2 \/ \E k \in 1..n : rows[k].Log_Return.kind # "num"
       THEN {}
       ELSE {k \in 1..n :
                LET d == n * rows[k].Log_Return.value - S
                IN d * d * (n - 1) > OutlierFactor * OutlierFactor * n * (n * Q - S * S)}

\* The critical issues and the warnings; the frame is valid if and only if
\* there is no critical issue.
ValidateDataQuality(rows) ==
    LET critical_issues ==
            (IF \E k \in 1..Len(rows) : rows[k].Log_Return.kind = "nan"
             THEN {"missing"} ELSE {})
            \cup (IF \E k \in 1..Len(rows) : rows[k].Log_Return.kind = "inf"
                  THEN {"infinite"} ELSE {})
            \cup (IF Len(rows) < MinObservations THEN {"insufficient"} ELSE {})
        warnings == IF Outliers(rows) # {} THEN {"outliers"} ELSE {}
    IN [valid |-> critical_issues = {}, critical_issues |-> critical_issues,
        warnings |-> warnings]

(***************************************************************************)
(* run_global_scan  (global_change_point_detector.py 56-133)               *)
(***************************************************************************)
\* df['detection_date'] = datetime.now(); save_detected_change_points(df):
\* to_sql(..., if_exists='append').  The write time is the number of the write.
SaveToDb(table, records) ==
    table \o [k \in 1..Len(records) |->
                 [record |-> records[k], detection_date |-> Len(table) + 1]]

\* Lines 67-84: a fresh detector loads and validates the series and starts
\* the window generator; without market data (prices_df is None) or with a
\* critical issue the scan is aborted.
StartScan ==
    /\ UNCHANGED valVars
    /\ UNCHANGED saveVars
    /\ pc = "idle"
    /\ LET df == PreparePriceData(-1) IN
       /\ prices_df' = df
       /\ IF market_data = <<>> \/ ~ValidateDataQuality(PreparedRows(-1)).valid
          THEN /\ pc' = "aborted"
               /\ current_start' = current_start
          ELSE /\ pc' = "generating"
               /\ current_start' = IndexMin(df)
    /\ detected_change_points' = <<>>
    /\ windows' = <<>>
    /\ idx' = 0
    /\ scan_log' = <<>>
    /\ UNCHANGED <<consolidated, cluster_log, reconsolidated, window_size, step_size,
                   market_data, db_change_points, min_confidence, last_analysis, result,
                   regimes>>

\* A plausible slip: a window whose analysis raises ends the loop.
AfterWindowAbortOnRaise(kind) == IF kind = "raise" THEN Len(windows) ELSE idx + 1

\* The loop moves to the next window whatever happened in this one
\* (try/except around the body, lines 94-117).
AfterWindow(kind) == idx + 1

\* A plausible slip: the confidence gate is left out.
ConfidentAlways(change_point) == TRUE

\* change_point['detection_confidence'] >= self.min_confidence
Confident(change_point) == change_point.detection_confidence >= min_confidence

\* One pass of the for loop, lines 90-117: analyse the window around its
\* centre, extract the change point against the generator's window_df and
\* keep it if it passes the confidence gate.
ScanWindow ==
    /\ UNCHANGED valVars
    /\ UNCHANGED saveVars
    /\ pc = "generated"
    /\ idx < Len(windows)
    /\ LET w == windows[idx + 1]
           window_df == w.window_df IN
       \E out \in AnalyzeEventOutcomes(prices_df,
                     CenterHalfDays(w.start_date, w.end_date), HalfWindow) :
          LET change_point ==
                  IF out.kind = "trace"
                  THEN ExtractChangePoint(out.trace, window_df, w.start_date, w.end_date)
                  ELSE NoChangePoint
              accepted == change_point # NoChangePoint /\ Confident(change_point) IN
          /\ detected_change_points' =
                 IF accepted THEN Append(detected_change_points, change_point)
                 ELSE detected_change_points
          /\ scan_log' = Append(scan_log,
                 [window_start |-> w.start_date,
                  outcome |-> IF accepted THEN "accepted"
                              ELSE IF out.kind = "trace" THEN "rejected" ELSE out.kind])
          /\ last_analysis' = [trace |-> out.trace, change_point |-> change_point]
          /\ idx' = AfterWindow(out.kind)
    /\ UNCHANGED <<pc, consolidated, cluster_log, reconsolidated>>
    /\ UNCHANGED winVars
    /\ UNCHANGED <<market_data, db_change_points, min_confidence, result, regimes>>

\* Lines 119-133: consolidate what was collected, save it and return it.
FinishScan ==
    /\ UNCHANGED valVars
    /\ UNCHANGED saveVars
    /\ pc = "generated"
    /\ idx >= Len(windows)
    /\ IF detected_change_points # <<>>
       THEN /\ consolidated' = ConsolidateDetections(detected_change_points)
            /\ cluster_log' = ConsolidateRun(detected_change_points).clusters
            /\ db_change_points' =
                   SaveToDb(db_change_points, ConsolidateDetections(detected_change_points))
            /\ result' = ConsolidateDetections(detected_change_points)
       ELSE /\ result' = <<>>
            /\ UNCHANGED <<consolidated, cluster_log, db_change_points>>
    /\ pc' = "scanned"
    /\ UNCHANGED <<detected_change_points, reconsolidated, market_data, min_confidence,
                   idx, scan_log, last_analysis, regimes>>
    /\ UNCHANGED winVars

(***************************************************************************)
(* incremental_update  (global_change_point_detector.py 281-337)           *)
(***************************************************************************)
\* get_last_processed_date('detected_change_points'): MAX(crisis_end_date)
LastProcessedDate(table) ==
    CHOOSE e \in {table[k].record.crisis_end_date : k \in 1..Len(table)} :
        \A k \in 1..Len(table) : table[k].record.crisis_end_date <= e

\* Line 296, "from db_data_loader import prepare_price_data_for_bayesian",
\* names a top-level module where the package imports .db_data_loader.  As
\* the repository is laid out no such module is on the search path (and the
\* file itself begins with a relative import), so the statement raises; a
\* deployment that puts a module of that name on the path resolves it.
LoaderImports == {"raised", "imported"}

\* Lines 289-293 without a previous scan on record (get_last_processed_date
\* returns None): the update is the full scan.
IncrementalFullScan ==
    /\ db_change_points = <<>>
    /\ StartScan

\* The update with a previous scan on record, lines 295-296 when the import
\* raises: the exception leaves incremental_update (the try begins at line
\* 313) and nothing is loaded, analysed or written.
IncrementalUpdateRaises ==
    /\ pc = "idle"
    /\ db_change_points # <<>>
    /\ "raised" \in LoaderImports
    /\ pc' = "update_raised"
    /\ UNCHANGED <<consVars, winVars, scanVars, valVars, saveVars>>

\* The update with a previous scan on record when the import resolves:
\* reload the tail of the series, analyse the one window that ends at its
\* last row and append the change point if it passes both gates.
IncrementalUpdate ==
    /\ UNCHANGED valVars
    /\ UNCHANGED saveVars
    /\ pc = "idle"
    /\ db_change_points # <<>>
    /\ "imported" \in LoaderImports
    /\ LET start_date == LastProcessedDate(db_change_points) - window_size
           df == PreparePriceData(start_date) IN
       /\ prices_df' = df
       /\ IF Len(df) < MinObservations
          THEN /\ result' = <<>>
               /\ scan_log' = <<>>
               /\ UNCHANGED <<db_change_points, last_analysis>>
          ELSE \E out \in AnalyzeEventOutcomes(df,
                             2 * (IndexMax(df) - HalfWindow), HalfWindow) :
                  LET change_point ==
                          IF out.kind = "trace"
                          THEN ExtractChangePoint(out.trace, out.window_df,
                                   IndexMin(out.window_df), IndexMax(out.window_df))
                          ELSE NoChangePoint
                      accepted == change_point # NoChangePoint /\ Confident(change_point) IN
                  /\ scan_log' = <<[window_start |-> IndexMax(df) - 2 * HalfWindow,
                         outcome |-> IF accepted THEN "accepted"
                                     ELSE IF out.kind = "trace" THEN "rejected"
                                     ELSE out.kind]>>
                  /\ last_analysis' = [trace |-> out.trace, change_point |-> change_point]
                  /\ IF accepted
                     THEN /\ db_change_points' = SaveToDb(db_change_points, <<change_point>>)
                          /\ result' = <<change_point>>
                     ELSE /\ result' = <<>>
                          /\ UNCHANGED db_change_points
    /\ pc' = "updated"
    /\ UNCHANGED consVars
    /\ UNCHANGED <<window_size, step_size, current_start, windows, market_data,
                   min_confidence, idx, regimes>>

(***************************************************************************)
(* RegimeLabeler.assign_regimes  (regime_labeler.py 52-136)                *)
(*                                                                         *)
(* A volatility of a regime row is either a number (the default 0.0 or a   *)
(* volatility copied from a crisis record), or the standard deviation of   *)
(* the log returns of the rows of market_data at the given dates, kept     *)
(* symbolic, or NaN (the standard deviation of fewer than two returns).    *)
(***************************************************************************)
MarginDays == 30        \* pd.Timedelta(days=30)
FallbackConfidence == 8000
FullConfidence == 10000

Num(v) == [kind |-> "num", num |-> v, rows |-> <<>>]

\* np.log(data['price'] / data['price'].shift(1)).std(): the first return is
\* NaN and std() is the sample deviation, NaN for fewer than two values.
LogReturnStd(dates) ==
    IF Len(dates) <= 2
    THEN [kind |-> "nan", num |-> 0, rows |-> dates]
    ELSE [kind |-> "std", num |-> 0, rows |-> dates]

\* load_detected_change_points followed by sort_values('crisis_start_date'):
\* the records in ascending order of crisis_start_date; neither ORDER BY nor
\* the sort fixes the order of records with the same start.
SortedChangePoints(table) ==
    LET n == Len(table)
        perms == {p \in [1..n -> 1..n] : \A i, j \in 1..n : i # j => p[i] # p[j]}
    IN {[k \in 1..n |-> table[p[k]].record] :
           p \in {q \in perms :
                     \A k \in 1..(n - 1) :
                        table[q[k]].record.crisis_start_date
                            <= table[q[k + 1]].record.crisis_start_date}}

\* A plausible slip: the frame is built from the returns, which lack the
\* first observation.
InitialRegimesFromReturns(data) ==
    [k \in 1..(Len(data) - 1) |->
        [date |-> data[k + 1].date, price |-> data[k + 1].price, regime |-> "Normal",
         volatility |-> Num(0), confidence |-> 0]]

\* Lines 65-71: one row per row of market_data, with the defaults.
InitialRegimes(data) ==
    [k \in 1..Len(data) |->
        [date |-> data[k].date, price |-> data[k].price, regime |-> "Normal",
         volatility |-> Num(0), confidence |-> 0]]

\* A plausible slip: the upper end of the range is left out.
LabelRangeOpen(regime_df, lo, hi, regime, volatility, confidence) ==
    [k \in 1..Len(regime_df) |->
        IF lo <= regime_df[k].date /\ regime_df[k].date < hi
        THEN [regime_df[k] EXCEPT !.regime = regime,
                                  !.volatility = Num(volatility),
                                  !.confidence = confidence]
        ELSE regime_df[k]]

\* regime_df.loc[mask, ...] = ... for the rows whose date lies in lo..hi.
LabelRange(regime_df, lo, hi, regime, volatility, confidence) ==
    [k \in 1..Len(regime_df) |->
        IF lo <= regime_df[k].date /\ regime_df[k].date <= hi
        THEN [regime_df[k] EXCEPT !.regime = regime,
                                  !.volatility = Num(volatility),
                                  !.confidence = confidence]
        ELSE regime_df[k]]

\* Lines 91-112: the crisis range, then the pre-crisis range, then the
\* recovery range of one record.
LabelChangePoint(regime_df, cp) ==
    LET start_date == cp.crisis_start_date
        end_date == cp.crisis_end_date
        crisis == LabelRange(regime_df, start_date, end_date, "Crisis",
                             cp.volatility_crisis, cp.detection_confidence)
        pre == LabelRange(crisis, start_date - MarginDays, start_date - 1, "Normal",
                          cp.volatility_pre, cp.detection_confidence)
    IN LabelRange(pre, end_date + 1, end_date + MarginDays, "Recovery",
                  cp.volatility_post, cp.detection_confidence)

\* Lines 90-112: the records are applied in order, later ones overwrite.
RECURSIVE LabelChangePoints(_, _, _)
LabelChangePoints(regime_df, change_points_sorted, i) ==
    IF i > Len(change_points_sorted) THEN regime_df
    ELSE LabelChangePoints(LabelChangePoint(regime_df, change_points_sorted[i]),
                           change_points_sorted, i + 1)

\* Lines 115-126: the baseline over the rows labeled Normal, written where
\* a Normal row still has volatility 0 or confidence 0.
FillBaseline(regime_df) ==
    LET normal_rows == SelectSeq(regime_df, LAMBDA r : r.regime = "Normal")
        normal_dates == [k \in 1..Len(normal_rows) |-> normal_rows[k].date]
        baseline_vol == LogReturnStd(normal_dates)
    IN IF Len(normal_rows) > 0 /\ Len(normal_dates) > 1
       THEN [k \in 1..Len(regime_df) |->
                LET r == regime_df[k]
                IN IF r.regime = "Normal"
                   THEN [r EXCEPT
                           !.volatility = IF r.volatility = Num(0) THEN baseline_vol
                                          ELSE r.volatility,
                           !.confidence = IF r.confidence = 0 THEN FallbackConfidence
                                          ELSE r.confidence]
                   ELSE r]
       ELSE regime_df

\* Lines 73-84: without change points every row is Normal with the baseline
\* of the whole series and confidence 1.0.
AllNormal(regime_df) ==
    LET baseline_vol == LogReturnStd([k \in 1..Len(regime_df) |-> regime_df[k].date])
    IN [k \in 1..Len(regime_df) |->
           [regime_df[k] EXCEPT !.volatility = baseline_vol,
                                !.confidence = FullConfidence]]

\* assign_regimes(): load both tables and label every date; without market
\* data nothing is assigned (load_data returns False).  It runs on its own
\* or as phase 2 of run_full_pipeline (bayesian_db_pipeline.py 111-124),
\* after the scan has returned, whatever the scan returned, or again in
\* run_incremental_update (lines 165-177) when the update returned a new
\* change point.
AssignRegimes ==
    /\ UNCHANGED valVars
    /\ UNCHANGED saveVars
    /\ \/ pc \in {"idle", "scanned", "aborted"}
       \/ pc = "updated" /\ result # <<>>
    /\ IF market_data = <<>>
       THEN /\ pc' = "unlabeled"
            /\ regimes' = regimes
       ELSE /\ pc' = "labeled"
            /\ \E change_points_sorted \in SortedChangePoints(db_change_points) :
                  regimes' =
                      IF change_points_sorted = <<>>
                      THEN AllNormal(InitialRegimes(market_data))
                      ELSE FillBaseline(LabelChangePoints(InitialRegimes(market_data),
                                                          change_points_sorted, 1))
    /\ UNCHANGED consVars
    /\ UNCHANGED winVars
    /\ UNCHANGED <<market_data, db_change_points, min_confidence, idx, scan_log,
                   last_analysis, result>>

(***************************************************************************)
(* save_regimes  (db_service.py 194-212), called by RegimeLabeler.save_to_db *)
(* (regime_labeler.py 138-150).  The DELETE runs in a transaction of its   *)
(* own, committed when the with block is left; to_sql then inserts in a    *)
(* second transaction.  Either statement can fail (connection lost, a row  *)
(* the table rejects); its transaction is then rolled back and the         *)
(* exception is logged.                                                    *)
(***************************************************************************)
\* DELETE FROM regimes WHERE date IN :dates
DeleteDates(table, regimes_df) ==
    SelectSeq(table, LAMBDA row : \A k \in 1..Len(regimes_df) : regimes_df[k].date # row.date)

\* regimes_df.to_sql('regimes', engine, if_exists='append', ...)
InsertRows(table, regimes_df) == table \o regimes_df

\* Lines 205-207: the delete and its commit, or the exception of line 211.
SaveRegimesDelete ==
    /\ UNCHANGED valVars
    /\ pc = "labeled"
    /\ \/ /\ db_regimes' = DeleteDates(db_regimes, regimes)
          /\ pc' = "deleted"
       \/ /\ db_regimes' = db_regimes
          /\ pc' = "save_failed"
    /\ UNCHANGED consVars
    /\ UNCHANGED winVars
    /\ UNCHANGED scanVars

\* Line 209: the insert and its commit, or the exception of line 211.
SaveRegimesInsert ==
    /\ UNCHANGED valVars
    /\ pc = "deleted"
    /\ \/ /\ db_regimes' = InsertRows(db_regimes, regimes)
          /\ pc' = "saved"
       \/ /\ db_regimes' = db_regimes
          /\ pc' = "save_failed"
    /\ UNCHANGED consVars
    /\ UNCHANGED winVars
    /\ UNCHANGED scanVars

(***************************************************************************)
(* BayesianPipeline.validate_detections  (bayesian_db_pipeline.py 184-302) *)
(***************************************************************************)
MatchDays == 60

\* Lines 216-229: the position in detected of the first change point whose
\* window holds the event date or whose start is within 60 days of it;
\* 0 when there is none.
RECURSIVE FirstMatch(_, _, _)
FirstMatch(event_date, detected, k) ==
    IF k > Len(detected) THEN 0
    ELSE LET cp_start == detected[k].crisis_start_date
             cp_end == detected[k].crisis_end_date
             days_to_start == Abs(event_date - cp_start)
         IN IF (cp_start <= event_date /\ event_date <= cp_end)
               \/ days_to_start <= MatchDays
            THEN k
            ELSE FirstMatch(event_date, detected, k + 1)

\* A plausible slip: only the distance to the start counts.
FirstMatchNearStart(event_date, detected, k) ==
    LET near == {j \in k..Len(detected) :
                    Abs(event_date - detected[j].crisis_start_date) <= MatchDays}
    IN IF near = {} THEN 0 ELSE CHOOSE j \in near : \A i \in near : j <= i

\* The first match from the first change point on.
FirstMatchFrom(event_date, detected, k) == FirstMatch(event_date, detected, k)

\* Lines 231-238 and 240-243: the entries appended for one event.
MatchEntry(event, match) ==
    [event |-> event.description, event_date |-> event.event_date,
     detected_start |-> match.crisis_start_date,
     detected_end |-> match.crisis_end_date,
     confidence |-> match.detection_confidence]

MissEntry(event) == [event |-> event.description, event_date |-> event.event_date]

\* Lines 211-243: the events in order, each matched or missed.
RECURSIVE MatchEvents(_, _, _, _)
MatchEvents(events, detected, i, lists) ==
    IF i > Len(events) THEN lists
    ELSE LET k == FirstMatchFrom(events[i].event_date, detected, 1)
         IN MatchEvents(events, detected, i + 1,
                IF k # 0
                THEN [lists EXCEPT !.matches = Append(@, MatchEntry(events[i], detected[k]))]
                ELSE [lists EXCEPT !.missed_events = Append(@, MissEntry(events[i]))])

\* A plausible slip: the detection counts as matched when an event lies in
\* its window, as in the first loop.
IsMatchOrInside(cp, events) ==
    \E i \in 1..Len(events) :
        \/ Abs(cp.crisis_start_date - events[i].event_date) <= MatchDays
        \/ /\ cp.crisis_start_date <= events[i].event_date
           /\ events[i].event_date <= cp.crisis_end_date

\* Lines 250-257: some event lies within 60 days of the start.
IsMatch(cp, events) ==
    \E i \in 1..Len(events) :
        Abs(cp.crisis_start_date - events[i].event_date) <= MatchDays

\* Lines 246-264: the detections without such an event, in order.
FalsePositives(detected, events) ==
    LET unmatched == SelectSeq(detected, LAMBDA cp : ~IsMatch(cp, events))
    IN [k \in 1..Len(unmatched) |->
           [detected_start |-> unmatched[k].crisis_start_date,
            detected_end |-> unmatched[k].crisis_end_date,
            confidence |-> unmatched[k].detection_confidence]]

\* (part / total * 100) if total > 0 else 0, as the exact fraction num / den.
Rate(part, total) ==
    IF total > 0 THEN [num |-> part * 100, den |-> total] ELSE [num |-> 0, den |-> 1]

\* A plausible slip: the metrics are computed whatever was loaded.
EarlyStatusNever(detected, events) == "none"

\* Lines 197-203: the returns that come before the validation logic.
EarlyStatus(detected, events) ==
    IF detected = <<>> THEN "no_detections"
    ELSE IF events = <<>> THEN "no_ground_truth"
    ELSE "none"

\* The dict returned by validate_detections for the loaded tables.
ValidationResults(detected, events) ==
    IF EarlyStatus(detected, events) # "none"
    THEN [status |-> EarlyStatus(detected, events)]
    ELSE LET lists == MatchEvents(events, detected, 1,
                                  [matches |-> <<>>, missed_events |-> <<>>])
             false_positives == FalsePositives(detected, events)
         IN [total_known_events |-> Len(events),
             detected_events |-> Len(lists.matches),
             missed_events |-> Len(lists.missed_events),
             false_positives |-> Len(false_positives),
             detection_rate |-> Rate(Len(lists.matches), Len(events)),
             false_positive_rate |-> Rate(Len(false_positives), Len(detected)),
             matches |-> lists.matches,
             missed |-> lists.missed_events,
             false_pos_list |-> false_positives]

\* validate_detections(): load both tables and score the detections.  It
\* runs on its own or as phase 3 of run_full_pipeline (lines 126-132),
\* after the labeling.
ValidateDetections ==
    /\ pc \in {"idle", "labeled", "unlabeled"}
    /\ \E detected \in SortedChangePoints(db_change_points) :
          validation_results' = ValidationResults(detected, known_events)
    /\ pc' = "validated"
    /\ UNCHANGED consVars
    /\ UNCHANGED winVars
    /\ UNCHANGED scanVars
    /\ UNCHANGED saveVars
    /\ UNCHANGED known_events

(***************************************************************************)
(* Specification SpecWin: the window generator on bounded series.          *)
(***************************************************************************)
\* A daily series from day 0 to day last, without the days gap_lo ..
\* gap_lo + gap_len - 1 and, when weekdays_only, without the weekend days.
Series(last, gap_lo, gap_len, weekdays_only) ==
    SelectSeq([k \in 1..(last + 1) |-> k - 1],
              LAMBDA d : /\ ~(gap_lo <= d /\ d < gap_lo + gap_len)
                         /\ (weekdays_only => d % 7 < 5))

SeriesFamily ==
    {Series(last, g[1], g[2], wk) :
        last \in {MaxDay - 90, MaxDay},
        g \in {<<0, 0>>, <<100, 60>>, <<150, 120>>},
        wk \in BOOLEAN}

WindowSizes == {99, 120, 138, 365}
StepSizes == {30, 45, 90}

InitWin ==
    /\ ValIdle
    /\ SaveIdle
    /\ pc = "generating"
    /\ prices_df \in {df \in SeriesFamily : Len(df) >= MinObservations}
    /\ window_size \in WindowSizes
    /\ step_size \in StepSizes
    /\ current_start = IndexMin(prices_df)
    /\ windows = <<>>
    /\ ConsIdle
    /\ ScanIdle

NextWin == WindowStep \/ WindowsDone

SpecWin == InitWin /\ [][NextWin]_vars

(***************************************************************************)
(* Specification SpecWinLive: the window generator under every step the    *)
(* command line accepts.  --step-size is read with type=int and handed on  *)
(* unchecked (bayesian_db_pipeline.py 343-346, 359-363), so 0 is a         *)
(* configured step.  The loop is sequential code: an iteration that can    *)
(* run does run, which is weak fairness of the two steps.                  *)
(***************************************************************************)
ConfiguredStepSizes == StepSizes \cup {0}

InitWinLive ==
    /\ ValIdle
    /\ SaveIdle
    /\ pc = "generating"
    /\ prices_df \in {df \in SeriesFamily : Len(df) >= MinObservations}
    /\ window_size \in WindowSizes
    /\ step_size \in ConfiguredStepSizes
    /\ current_start = IndexMin(prices_df)
    /\ windows = <<>>
    /\ ConsIdle
    /\ ScanIdle

SpecWinLive == InitWinLive /\ [][NextWin]_vars /\ WF_vars(WindowStep) /\ WF_vars(WindowsDone)

(***************************************************************************)
(* Specification SpecScan: one full scan or one incremental update.        *)
(***************************************************************************)
\* A record left in the table by an earlier run.
EarlierRecord ==
    [record |->
        [crisis_start_date |-> 150, crisis_end_date |-> 200,
         volatility_pre |-> 1000, volatility_crisis |-> 5000, volatility_post |-> 2000,
         detection_confidence |-> 9000, window_size_days |-> 120,
         notes |-> [window_start |-> 90, window_end |-> 210, vol_ratio |-> 333]],
     detection_date |-> 1]

\* The rows of table market_data for the dates of df: price 50 on every day
\* but one, which has the given price (NULL, zero, or a doubled price).
PricedRows(df, day, price) ==
    [k \in 1..Len(df) |-> [date |-> df[k], price |-> IF df[k] = day THEN price ELSE 50]]

ScanConfigs == {<<120, 90, 5000>>, <<121, 90, 7000>>}

InitScan ==
    /\ ValIdle
    /\ SaveIdle
    /\ pc = "idle"
    /\ market_data \in
           {PricedRows(df, -1, 50) :
               df \in {Series(MaxDay, 0, 0, FALSE), Series(MaxDay, 101, 60, FALSE),
                       Series(MinObservations - 1, 0, 0, FALSE)}}
           \cup {PricedRows(Series(MaxDay - 100, 0, 0, FALSE), 200, p) : p \in {NULL, 0, 100}}
           \cup {<<>>}
    /\ db_change_points \in {<<>>, <<EarlierRecord>>}
    /\ \E cfg \in ScanConfigs :
          /\ window_size = cfg[1]
          /\ step_size = cfg[2]
          /\ min_confidence = cfg[3]
    /\ prices_df = <<>>
    /\ current_start = 0
    /\ windows = <<>>
    /\ idx = 0
    /\ scan_log = <<>>
    /\ last_analysis = NoAnalysis
    /\ result = <<>>
    /\ regimes = <<>>
    /\ ConsIdle

NextScan == StartScan \/ WindowStep \/ WindowsDone \/ ScanWindow \/ FinishScan
            \/ IncrementalFullScan \/ IncrementalUpdateRaises \/ IncrementalUpdate

SpecScan == InitScan /\ [][NextScan]_vars

(***************************************************************************)
(* Specification SpecLabel: the labeler on bounded tables.                 *)
(***************************************************************************)
\* A daily series from day first to day last.
DailyRows(first, last) ==
    [k \in 1..(last - first + 1) |->
        [date |-> first + k - 1, price |-> 50 + ((first + k - 1) % 7)]]

\* The series: a long one, series that end at or one day past the end of a
\* recovery range, series that start on or one day before a crisis start,
\* one that ends inside a crisis, and the empty table.
LabelSeries ==
    {DailyRows(0, MaxLabelDay), DailyRows(39, 81), DailyRows(40, 81),
     DailyRows(40, 80), DailyRows(0, 45), <<>>}

CrisisRecord(s, e, vol_pre, vol_crisis, vol_post, conf) ==
    [crisis_start_date |-> s, crisis_end_date |-> e,
     volatility_pre |-> vol_pre, volatility_crisis |-> vol_crisis,
     volatility_post |-> vol_post,
     detection_confidence |-> conf, window_size_days |-> 365,
     notes |-> [window_start |-> 0, window_end |-> 365,
                vol_ratio |-> 333]]

\* Records of a first crisis (start 40 or 41, end 49 or 50, with a zero
\* volatility_pre or a zero confidence among them) and of a second one that
\* begins inside the first or inside its recovery range.
CrisisRecords ==
    {CrisisRecord(s, e, v[1], 5000, 2000, v[2]) :
        s \in {40, 41}, e \in {49, 50},
        v \in {<<1000, 9000>>, <<0, 9000>>, <<1000, 0>>}}
    \cup {CrisisRecord(s, s + 20, 1500, 6000, 2500, 8500) : s \in {45, 70}}

CrisisTables ==
    UNION {{[k \in 1..n |-> [record |-> f[k], detection_date |-> k]] :
              f \in [1..n -> CrisisRecords]} : n \in 0..MaxCrises}

InitLabel ==
    /\ ValIdle
    /\ SaveIdle
    /\ pc = "idle"
    /\ market_data \in LabelSeries
    /\ db_change_points \in CrisisTables
    /\ regimes = <<>>
    /\ min_confidence = 0
    /\ idx = 0
    /\ scan_log = <<>>
    /\ last_analysis = NoAnalysis
    /\ result = <<>>
    /\ ConsIdle
    /\ WinIdle

NextLabel == AssignRegimes

SpecLabel == InitLabel /\ [][NextLabel]_vars

(***************************************************************************)
(* Specification SpecSave: the labeler and the saving of its rows over the *)
(* rows an earlier run left in table regimes.                              *)
(***************************************************************************)
\* The rows saved by an earlier run over the same series, made when the
\* crisis table was still empty.
OldRegimes(data) == AllNormal(InitialRegimes(data))

InitSave ==
    /\ ValIdle
    /\ pc = "idle"
    /\ market_data \in LabelSeries
    /\ db_change_points \in CrisisTables
    /\ db_regimes = OldRegimes(market_data)
    /\ regimes = <<>>
    /\ min_confidence = 0
    /\ idx = 0
    /\ scan_log = <<>>
    /\ last_analysis = NoAnalysis
    /\ result = <<>>
    /\ ConsIdle
    /\ WinIdle

NextSave == AssignRegimes \/ SaveRegimesDelete \/ SaveRegimesInsert

SpecSave == InitSave /\ [][NextSave]_vars

(***************************************************************************)
(* Specification SpecRelabel: the labeler, then a later update that saves  *)
(* one new change point, then the labeler again on the longer table.       *)
(***************************************************************************)
\* The change points a later update can come to save.
NewChangePoints == {CrisisRecord(s, s + 10, 1500, 6000, 2500, 8500) : s \in {45, 100}}

\* incremental_update on a later day: self._save_to_db([change_point]) and
\* the frame of the one change point is returned
\* (global_change_point_detector.py 327-330).
SaveNewChangePoint ==
    /\ UNCHANGED valVars
    /\ UNCHANGED saveVars
    /\ pc = "labeled"
    /\ Len(db_change_points) <= MaxCrises
    /\ \E change_point \in NewChangePoints :
          /\ db_change_points' = SaveToDb(db_change_points, <<change_point>>)
          /\ result' = <<change_point>>
    /\ pc' = "updated"
    /\ UNCHANGED consVars
    /\ UNCHANGED winVars
    /\ UNCHANGED <<market_data, min_confidence, idx, scan_log, last_analysis, regimes>>

NextRelabel == AssignRegimes \/ SaveNewChangePoint

SpecRelabel == InitLabel /\ [][NextRelabel]_vars

(***************************************************************************)
(* Specification SpecValidate: the validation on bounded tables.           *)
(***************************************************************************)
\* A long crisis, a short one with the same start, one that begins inside
\* the first, and a late one.
ValidatedRecords ==
    {CrisisRecord(100, 200, 1000, 5000, 2000, 9000),
     CrisisRecord(100, 120, 1000, 4000, 2000, 8000),
     CrisisRecord(130, 150, 1500, 6000, 2500, 8500),
     CrisisRecord(300, 320, 1000, 5000, 2000, 7500)}

ValidatedTables ==
    UNION {{[k \in 1..n |-> [record |-> f[k], detection_date |-> k]] :
              f \in [1..n -> ValidatedRecords]} : n \in 0..MaxCrises}

\* Event dates 90, 61, 60 and 45 days before the start of the first crisis,
\* 61 and 80 days after it (inside its window), between the crises, and
\* 60 days before the last one.
EventDates == {10, 39, 40, 55, 161, 180, 215, 240}

\* The rows of table events in the order of ORDER BY event_date ASC; the
\* description of an event is its number.
EventTables ==
    UNION {{[k \in 1..n |-> [event_date |-> f[k], description |-> k]] :
              f \in {g \in [1..n -> EventDates] :
                        \A k \in 1..(n - 1) : g[k] <= g[k + 1]}} : n \in 0..MaxEvents}

InitValidate ==
    /\ SaveIdle
    /\ pc = "idle"
    /\ db_change_points \in ValidatedTables
    /\ known_events \in EventTables
    /\ validation_results = [status |-> "not_run"]
    /\ market_data = <<>>
    /\ min_confidence = 0
    /\ idx = 0
    /\ scan_log = <<>>
    /\ last_analysis = NoAnalysis
    /\ result = <<>>
    /\ regimes = <<>>
    /\ ConsIdle
    /\ WinIdle

NextValidate == ValidateDetections

SpecValidate == InitValidate /\ [][NextValidate]_vars

(***************************************************************************)
(* Specification SpecPipeline: run_full_pipeline, the scan followed by the *)
(* labeling and the validation, on a series of one window.                 *)
(***************************************************************************)
\* A record left in the table by an earlier run over the same series.
EarlierCrisis ==
    [record |-> CrisisRecord(40, 50, 1000, 5000, 2000, 9000), detection_date |-> 1]

InitPipeline ==
    /\ SaveIdle
    /\ pc = "idle"
    /\ market_data = PricedRows(Series(MinObservations + 30, 0, 0, FALSE), -1, 50)
    /\ db_change_points \in {<<>>, <<EarlierCrisis>>}
    /\ known_events \in {<<>>, <<[event_date |-> 45, description |-> 1]>>}
    /\ validation_results = [status |-> "not_run"]
    /\ window_size = 120
    /\ step_size = 90
    /\ min_confidence = 5000
    /\ prices_df = <<>>
    /\ current_start = 0
    /\ windows = <<>>
    /\ idx = 0
    /\ scan_log = <<>>
    /\ last_analysis = NoAnalysis
    /\ result = <<>>
    /\ regimes = <<>>
    /\ ConsIdle

NextPipeline == StartScan \/ WindowStep \/ WindowsDone \/ ScanWindow \/ FinishScan
                \/ AssignRegimes \/ ValidateDetections

SpecPipeline == InitPipeline /\ [][NextPipeline]_vars

(***************************************************************************)
(* Specification SpecCons: the consolidator on bounded candidate lists.    *)
(***************************************************************************)
\* crisis_start_date values of the candidates: gaps of 25, 60, 61 and more.
CandStarts == {0, 25, 60, 61, 121}
\* detection_confidence values (units of 1e-4).
CandConfs == {7000, 8000, 9000}

\* The candidate produced by window w (the notes name the window); the
\* windows are 30 days apart, the step get_sliding_windows has by default.
Candidate(w, s, c) ==
    [crisis_start_date |-> s, crisis_end_date |-> s + 20,
     volatility_pre |-> 1000, volatility_crisis |-> 5000, volatility_post |-> 2000,
     detection_confidence |-> c, window_size_days |-> 365,
     notes |-> [window_start |-> 30 * (w - 1), window_end |-> 30 * (w - 1) + 365,
                vol_ratio |-> 333]]

CandidateLists ==
    UNION {{[w \in 1..n |-> Candidate(w, f[w][1], f[w][2])] :
              f \in [1..n -> CandStarts \X CandConfs]} : n \in 0..MaxCand}

InitCons ==
    /\ ValIdle
    /\ SaveIdle
    /\ pc = "collected"
    /\ detected_change_points \in CandidateLists
    /\ consolidated = <<>>
    /\ cluster_log = <<>>
    /\ reconsolidated = <<>>
    /\ WinIdle
    /\ ScanIdle

\* consolidated = self._consolidate_detections()
Consolidate ==
    /\ UNCHANGED valVars
    /\ UNCHANGED saveVars
    /\ pc = "collected"
    /\ consolidated' = ConsolidateDetections(detected_change_points)
    /\ cluster_log' = ConsolidateRun(detected_change_points).clusters
    /\ pc' = "consolidated"
    /\ UNCHANGED <<detected_change_points, reconsolidated>>
    /\ UNCHANGED winVars
    /\ UNCHANGED scanVars

\* the consolidated list handed to the consolidator again
Reconsolidate ==
    /\ UNCHANGED valVars
    /\ UNCHANGED saveVars
    /\ pc = "consolidated"
    /\ reconsolidated' = ConsolidateDetections(consolidated)
    /\ pc' = "reconsolidated"
    /\ UNCHANGED <<detected_change_points, consolidated, cluster_log>>
    /\ UNCHANGED winVars
    /\ UNCHANGED scanVars

NextCons == Consolidate \/ Reconsolidate

SpecCons == InitCons /\ [][NextCons]_vars

(***************************************************************************)
(* Properties of the consolidator (checked under SpecCons).                *)
(***************************************************************************)
ConsDone == pc \in {"consolidated", "reconsolidated"}

\* C4: for every cluster formed by consolidation, the emitted record is a
\* member of that cluster and no member of the cluster has a larger
\* detection_confidence.
C4_RetainsMaxConfidence ==
    ConsDone =>
        /\ Len(consolidated) = Len(cluster_log)
        /\ \A k \in 1..Len(cluster_log) :
              /\ consolidated[k] \in Range(cluster_log[k])
              /\ \A m \in Range(cluster_log[k]) :
                    m.detection_confidence <= consolidated[k].detection_confidence

\* A cluster of several members whose best member is not its first one.
C4_Witness ==
    /\ ConsDone
    /\ \E k \in 1..Len(cluster_log) :
          /\ Len(cluster_log[k]) >= 2
          /\ consolidated[k] # cluster_log[k][1]
          /\ consolidated[k].detection_confidence > cluster_log[k][1].detection_confidence

\* The clusters laid end to end.
RECURSIVE Flatten(_)
Flatten(ss) == IF ss = <<>> THEN <<>> ELSE Head(ss) \o Flatten(Tail(ss))

\* C5: candidates are processed in ascending crisis_start_date order; a
\* candidate joins the open cluster iff its start is at most 60 days after
\* the start of the cluster's first member, otherwise it opens a new
\* cluster; one record is emitted per cluster, the last one included.
C5_AnchorClustering ==
    ConsDone =>
        LET all == Flatten(cluster_log) IN
        /\ Len(all) = Len(detected_change_points)
        /\ Range(all) = Range(detected_change_points)
        /\ \A i \in 1..(Len(all) - 1) :
              all[i].crisis_start_date <= all[i + 1].crisis_start_date
        /\ \A k \in 1..Len(cluster_log) :
              /\ cluster_log[k] # <<>>
              /\ \A m \in Range(cluster_log[k]) :
                    m.crisis_start_date - cluster_log[k][1].crisis_start_date <= OverlapDays
        /\ \A k \in 2..Len(cluster_log) :
              cluster_log[k][1].crisis_start_date
                  - cluster_log[k - 1][1].crisis_start_date > OverlapDays
        /\ Len(consolidated) = Len(cluster_log)
        /\ (Len(detected_change_points) = 2 =>
               LET gap == Abs(detected_change_points[1].crisis_start_date
                              - detected_change_points[2].crisis_start_date) IN
               Len(consolidated) = IF gap <= OverlapDays THEN 1 ELSE 2)

\* A member more than 60 days after its predecessor but within 60 days of
\* the anchor joins the cluster, and a later candidate opens a second one.
C5_Witness ==
    /\ ConsDone
    /\ Len(cluster_log) = 2
    /\ Len(cluster_log[1]) = 2
    /\ cluster_log[1][2].crisis_start_date - cluster_log[1][1].crisis_start_date = OverlapDays
    /\ cluster_log[2][1].crisis_start_date - cluster_log[1][2].crisis_start_date <= OverlapDays

\* Consecutive records start more than 60 days apart.
WellSeparated(recs) ==
    \A i \in 1..(Len(recs) - 1) :
        recs[i + 1].crisis_start_date - recs[i].crisis_start_date > OverlapDays

\* C6 as stated: consolidating a consolidated list returns it unchanged.
C6_Idempotent ==
    pc = "reconsolidated" => reconsolidated = consolidated

\* C6 amended: consolidating a consolidated list returns it unchanged when
\* its consecutive records start more than 60 days apart.
C6_IdempotentWhenSeparated ==
    (pc = "reconsolidated" /\ WellSeparated(consolidated)) => reconsolidated = consolidated

\* Two well-separated records, each chosen from a cluster, consolidated again.
C6_Witness ==
    /\ pc = "reconsolidated"
    /\ Len(consolidated) = 2
    /\ WellSeparated(consolidated)
    /\ Len(detected_change_points) = 3
    /\ reconsolidated = consolidated

(***************************************************************************)
(* Properties of the scanner (checked under SpecScan).                     *)
(***************************************************************************)
\* The records written to the table by the run in progress.
PersistedByRun ==
    {db_change_points[k].record : k \in {j \in 1..Len(db_change_points) :
                                            db_change_points[j] # EarlierRecord}}

\* Every record the run has collected, consolidated, returned or persisted.
RunRecords ==
    Range(detected_change_points) \cup Range(consolidated) \cup Range(result)
        \cup PersistedByRun

LastOutcome == IF scan_log = <<>> THEN "nothing" ELSE scan_log[Len(scan_log)].outcome

\* C8: a window's output is accepted only if its detection_confidence is at
\* least min_confidence and its volatility ratio sigma_2 / ((sigma_1 +
\* sigma_3) / 2) is at least 1.5; so every record collected, consolidated,
\* returned or persisted by a full scan or an incremental update carries a
\* confidence of at least min_confidence and a ratio of at least 1.50.
C8_AcceptanceGates ==
    /\ \A r \in RunRecords :
          /\ r.detection_confidence >= min_confidence
          /\ r.notes.vol_ratio >= 150
    /\ LastOutcome = "accepted" =>
          /\ 2 * last_analysis.trace.sigma_2
                 * 2 >= 3 * (last_analysis.trace.sigma_1 + last_analysis.trace.sigma_3)
          /\ last_analysis.change_point.detection_confidence >= min_confidence
          /\ last_analysis.change_point \in RunRecords
    /\ LastOutcome # "accepted" =>
          (pc \in {"generated", "updated"} => last_analysis.change_point \notin RunRecords)

\* A full scan persisted a record, and its last window produced a change
\* point that passed the ratio gate but not the confidence gate.
C8_Witness ==
    /\ pc = "scanned"
    /\ PersistedByRun # {}
    /\ \E i \in 1..Len(scan_log) : scan_log[i].outcome = "rejected"
    /\ LastOutcome = "rejected"
    /\ last_analysis.change_point # NoChangePoint
    /\ last_analysis.change_point.detection_confidence < min_confidence

\* All draws of a posterior are equal.
Sharp(draws) == \A i, j \in 1..Len(draws) : draws[i] = draws[j]

\* C9: the detection_confidence extracted from any posterior sample lies in
\* [0, 1]: it is the average of two breakpoint confidences that are each in
\* [0, 1], so it is 1 when neither posterior has any spread and at least
\* one half when one of them has none.
C9_ConfidenceInUnitInterval ==
    /\ \A r \in RunRecords :
          0 <= r.detection_confidence /\ r.detection_confidence <= 10000
    /\ last_analysis.change_point # NoChangePoint =>
          LET c == last_analysis.change_point.detection_confidence IN
          /\ 0 <= c /\ c <= 10000
          /\ (Sharp(last_analysis.trace.tau_1) /\ Sharp(last_analysis.trace.tau_2))
                 => c = 10000
          /\ (Sharp(last_analysis.trace.tau_1) \/ Sharp(last_analysis.trace.tau_2))
                 => c >= 5000

\* A change point was extracted from posteriors that are both spread out.
C9_Witness ==
    /\ last_analysis.change_point # NoChangePoint
    /\ ~Sharp(last_analysis.trace.tau_1)
    /\ ~Sharp(last_analysis.trace.tau_2)
    /\ last_analysis.change_point.detection_confidence < 5000
    /\ last_analysis.change_point.detection_confidence > 0

\* C10: at the end of a full scan every generated window has been analysed,
\* in order, whatever failed on the way; the accepted candidates are exactly
\* what was collected, each of them belongs to a consolidated cluster, and
\* the record kept for every cluster has been returned and persisted.
C10_FailureIsolated ==
    pc = "scanned" =>
        /\ Len(scan_log) = Len(windows)
        /\ \A i \in 1..Len(windows) : scan_log[i].window_start = windows[i].start_date
        /\ LET acc == SelectSeq(scan_log, LAMBDA e : e.outcome = "accepted") IN
           /\ Len(acc) = Len(detected_change_points)
           /\ \A k \in 1..Len(acc) :
                 detected_change_points[k].notes.window_start = acc[k].window_start
        /\ detected_change_points # <<>> =>
              /\ \A d \in Range(detected_change_points) :
                    \E k \in 1..Len(cluster_log) : d \in Range(cluster_log[k])
              /\ Len(result) = Len(cluster_log)
              /\ \A k \in 1..Len(cluster_log) :
                    /\ result[k] \in Range(cluster_log[k])
                    /\ result[k] \in PersistedByRun

\* The sampler raised in one window and a later window's candidate was
\* accepted, consolidated and persisted.
C10_Witness ==
    /\ pc = "scanned"
    /\ \E i, j \in 1..Len(scan_log) :
          /\ i < j
          /\ scan_log[i].outcome = "raise"
          /\ scan_log[j].outcome = "accepted"
          /\ \E r \in PersistedByRun : r.notes.window_start = scan_log[j].window_start

(***************************************************************************)
(* Properties of the window generator (checked under SpecWin).             *)
(***************************************************************************)
\* C7 as stated: every window spans window_size days and consecutive
\* yielded windows start exactly step_size days apart.
C7_ExactStep ==
    /\ \A i \in 1..Len(windows) :
          windows[i].end_date - windows[i].start_date = window_size
    /\ \A i \in 1..(Len(windows) - 1) :
          windows[i + 1].start_date - windows[i].start_date = step_size

\* C7 amended: every yielded window spans window_size days, and the start
\* dates of consecutive yielded windows differ by step_size times one plus
\* the number of windows in between that were discarded for holding fewer
\* than 100 observations (so by exactly step_size when none was discarded).
C7_StepMultiple ==
    /\ \A i \in 1..Len(windows) :
          windows[i].end_date - windows[i].start_date = window_size
    /\ \A i \in 1..(Len(windows) - 1) :
          LET diff == windows[i + 1].start_date - windows[i].start_date IN
          /\ diff > 0
          /\ diff % step_size = 0
          /\ \A k \in 1..((diff \div step_size) - 1) :
                Cardinality({d \in Range(prices_df) :
                    /\ windows[i].start_date + k * step_size <= d
                    /\ d <= windows[i].start_date + k * step_size + window_size})
                  < MinObservations

\* Windows were yielded on both sides of a discarded one.
C7_Witness ==
    /\ pc = "generated"
    /\ \E i \in 1..(Len(windows) - 1) :
          windows[i + 1].start_date - windows[i].start_date > step_size
    /\ \E i \in 1..(Len(windows) - 1) :
          windows[i + 1].start_date - windows[i].start_date = step_size

(***************************************************************************)
(* Properties of the labeler (checked under SpecLabel).                    *)
(***************************************************************************)
Labeled == pc = "labeled"

ChangePoint(k) == db_change_points[k].record

\* The day lies in none of the three ranges of any crisis record.
Untouched(d) ==
    \A k \in 1..Len(db_change_points) :
        \/ d < ChangePoint(k).crisis_start_date - MarginDays
        \/ d > ChangePoint(k).crisis_end_date + MarginDays

\* C1: for every series and every crisis list, the labeler yields exactly
\* one regime row per observation date: the dates of the rows are the dates
\* of the series, none missing, none added, none repeated.
C1_OneRowPerDate ==
    Labeled =>
        /\ Len(regimes) = Len(market_data)
        /\ \A k \in 1..Len(regimes) :
              /\ regimes[k].date = market_data[k].date
              /\ regimes[k].price = market_data[k].price
        /\ \A j, k \in 1..Len(regimes) : j # k => regimes[j].date # regimes[k].date

\* Two crisis records whose ranges overlap have been applied to a series
\* that reaches beyond them.
C1_Witness ==
    /\ Labeled
    /\ Len(db_change_points) = 2
    /\ ChangePoint(1).crisis_start_date = 45
    /\ ChangePoint(2).crisis_start_date = 40
    /\ Len(regimes) = MaxLabelDay + 1
    /\ \E k \in 1..Len(regimes) : regimes[k].regime = "Recovery"

\* C2: with a single crisis record, every day from start to end inclusive
\* is Crisis with volatility_crisis, every day in the 30 days before start
\* is Normal with volatility_pre, every day in the 30 days after end is
\* Recovery with volatility_post, each with the record's confidence.
C2_SingleCrisisRanges ==
    (Labeled /\ Len(db_change_points) = 1) =>
        LET cp == ChangePoint(1)
        IN \A k \in 1..Len(regimes) :
              LET r == regimes[k]
              IN /\ (cp.crisis_start_date <= r.date /\ r.date <= cp.crisis_end_date)
                      => /\ r.regime = "Crisis"
                         /\ r.volatility = Num(cp.volatility_crisis)
                         /\ r.confidence = cp.detection_confidence
                 /\ (cp.crisis_start_date - MarginDays <= r.date
                       /\ r.date < cp.crisis_start_date)
                      => /\ r.regime = "Normal"
                         /\ r.volatility = Num(cp.volatility_pre)
                         /\ r.confidence = cp.detection_confidence
                 /\ (cp.crisis_end_date < r.date
                       /\ r.date <= cp.crisis_end_date + MarginDays)
                      => /\ r.regime = "Recovery"
                         /\ r.volatility = Num(cp.volatility_post)
                         /\ r.confidence = cp.detection_confidence

\* C3: when the crisis list is non-empty, every day outside all the ranges
\* of all the records ends as Normal with the baseline volatility and
\* confidence 0.8; none keeps the defaults volatility 0 and confidence 0.
C3_UntouchedGetBaseline ==
    (Labeled /\ db_change_points # <<>>) =>
        \A k \in 1..Len(regimes) :
            Untouched(regimes[k].date) =>
                /\ regimes[k].regime = "Normal"
                /\ regimes[k].volatility.kind # "num"
                /\ regimes[k].confidence = FallbackConfidence

(***************************************************************************)
(* Properties of the validation of the input series (checked under         *)
(* SpecScan).                                                              *)
(***************************************************************************)
\* A full scan has started.
ScanStarted == pc \in {"aborted", "generating", "generated", "scanned"}

\* The series as stored has a log return of the given kind.
SeriesHas(kind) ==
    \E k \in 1..(Len(market_data) - 1) :
        LogReturn(market_data[k].price, market_data[k + 1].price).kind = kind

CriticalSeries ==
    \/ market_data = <<>>
    \/ SeriesHas("nan")
    \/ SeriesHas("inf")
    \/ Len(market_data) < MinObservations

\* C11: a series that is absent, has a missing or a non-finite log return,
\* or has fewer than 100 observations makes the full scan fail before any
\* window is analysed and without a write to the table of change points;
\* outliers alone never make it fail.
C11_FailFast ==
    /\ [](ScanStarted =>
            /\ CriticalSeries => pc = "aborted"
            /\ pc = "aborted" => (idx = 0 /\ scan_log = <<>> /\ windows = <<>>)
            /\ (~CriticalSeries /\ Outliers(PreparedRows(-1)) # {}) => pc # "aborted")
    /\ [][pc' = "aborted" => db_change_points' = db_change_points]_vars

(***************************************************************************)
(* Properties of the validation (checked under SpecValidate).              *)
(***************************************************************************)
\* The validation went through its loops.
Scored == pc = "validated" /\ db_change_points # <<>> /\ known_events # <<>>

\* The crisis record matches the event date: the date lies in its window or
\* within 60 days of its start.
Matches(cp, event_date) ==
    \/ cp.crisis_start_date <= event_date /\ event_date <= cp.crisis_end_date
    \/ Abs(event_date - cp.crisis_start_date) <= 60

MatchingCrises(event_date) ==
    {k \in 1..Len(db_change_points) : Matches(ChangePoint(k), event_date)}

\* C12: an event is counted as matched if and only if some crisis has it in
\* its window or starts within 60 days of it, and the crisis recorded is a
\* first such crisis in the order of the crises (ascending start); every
\* other event is missed.  An event 45 days before a start is matched, one
\* 90 days before and outside every window is missed.
C12_MatchedIffNear ==
    Scored =>
        LET matches == validation_results.matches
            missed == validation_results.missed
        IN /\ \A i \in 1..Len(known_events) :
                 LET e == known_events[i]
                     mine == {j \in 1..Len(matches) : matches[j].event = e.description}
                     lost == {j \in 1..Len(missed) : missed[j].event = e.description}
                 IN IF MatchingCrises(e.event_date) # {}
                    THEN /\ Cardinality(mine) = 1
                         /\ lost = {}
                         /\ \A j \in mine :
                               /\ matches[j].event_date = e.event_date
                               /\ \E k \in MatchingCrises(e.event_date) :
                                     /\ matches[j].detected_start = ChangePoint(k).crisis_start_date
                                     /\ matches[j].detected_end = ChangePoint(k).crisis_end_date
                                     /\ matches[j].confidence = ChangePoint(k).detection_confidence
                                     /\ \A l \in MatchingCrises(e.event_date) :
                                           ChangePoint(k).crisis_start_date
                                               <= ChangePoint(l).crisis_start_date
                    ELSE /\ mine = {}
                         /\ Cardinality(lost) = 1
           /\ Len(matches) + Len(missed) = Len(known_events)
           /\ validation_results.detected_events = Len(matches)
           /\ validation_results.missed_events = Len(missed)

\* An event 45 days before the start of the first crisis is matched, one 90
\* days before it is missed, and an event inside the window of the first
\* crisis, more than 60 days from every start, is matched to it although a
\* later crisis is in the table.
C12_Witness ==
    /\ Scored
    /\ \E t \in {<<10, 55>>, <<10, 180>>} :
          /\ Len(known_events) = 2
          /\ known_events[1].event_date = t[1]
          /\ known_events[2].event_date = t[2]
          /\ Len(validation_results.matches) = 1
          /\ validation_results.matches[1].event_date = t[2]
          /\ validation_results.matches[1].detected_start = 100
          /\ validation_results.missed[1].event_date = 10
    /\ Len(db_change_points) = 2
    /\ ChangePoint(1).crisis_start_date = 130
    /\ ChangePoint(2).crisis_start_date = 100

\* The rows of the table of change points without an event within 60 days
\* of their start.
Unmatched ==
    {k \in 1..Len(db_change_points) :
        \A i \in 1..Len(known_events) :
            Abs(ChangePoint(k).crisis_start_date - known_events[i].event_date) > 60}

FalsePosEntry(k) ==
    [detected_start |-> ChangePoint(k).crisis_start_date,
     detected_end |-> ChangePoint(k).crisis_end_date,
     confidence |-> ChangePoint(k).detection_confidence]

\* C13: a crisis is in the list of false positives if and only if no event
\* lies within 60 days of its start, and each crisis is there at most once:
\* the list pairs off one to one with the rows of the table that have no
\* such event.
C13_FalsePositiveIffFar ==
    Scored =>
        LET false_pos_list == validation_results.false_pos_list
        IN /\ \E f \in [1..Len(false_pos_list) -> Unmatched] :
                 /\ \A a, b \in 1..Len(false_pos_list) : a # b => f[a] # f[b]
                 /\ \A a \in 1..Len(false_pos_list) : false_pos_list[a] = FalsePosEntry(f[a])
           /\ Len(false_pos_list) = Cardinality(Unmatched)
           /\ validation_results.false_positives = Len(false_pos_list)

\* A crisis whose window holds an event that is more than 60 days from its
\* start is a false positive, listed once, next to a crisis that is none.
C13_Witness ==
    /\ Scored
    /\ Len(known_events) = 2
    /\ known_events[1].event_date = 180
    /\ known_events[2].event_date = 240
    /\ Len(db_change_points) = 2
    /\ ChangePoint(1).crisis_start_date = 300
    /\ ChangePoint(2).crisis_end_date = 200
    /\ Len(validation_results.false_pos_list) = 1
    /\ validation_results.false_pos_list[1].detected_start = 100
    /\ Len(validation_results.matches) = 2

\* Validation was called with no detections or with no events.
NothingToScore == pc = "validated" /\ (db_change_points = <<>> \/ known_events = <<>>)

ZeroRate == [num |-> 0, den |-> 1]

\* C14: called with no events or with no detections, the validation does
\* not raise and its result carries detection_rate 0 and
\* false_positive_rate 0.
C14_ZeroRates ==
    NothingToScore =>
        /\ "detection_rate" \in DOMAIN validation_results
        /\ "false_positive_rate" \in DOMAIN validation_results
        /\ validation_results.detection_rate = ZeroRate
        /\ validation_results.false_positive_rate = ZeroRate

\* C14 as the code has it: called with no detections the validation returns
\* the status no_detections, called with detections and no events the
\* status no_ground_truth; the result carries nothing else, no rate is
\* computed and nothing is raised.
C14_StatusOnly ==
    NothingToScore =>
        /\ DOMAIN validation_results = {"status"}
        /\ validation_results.status =
               IF db_change_points = <<>> THEN "no_detections" ELSE "no_ground_truth"

\* Detections without events.
C14_Witness ==
    /\ NothingToScore
    /\ Len(db_change_points) = 2
    /\ known_events = <<>>
    /\ validation_results.status = "no_ground_truth"

(***************************************************************************)
(* Properties of the writes to the table of change points (checked under   *)
(* SpecScan).                                                              *)
(***************************************************************************)
\* The records of the table, in insertion order.
Persisted == [k \in 1..Len(db_change_points) |-> db_change_points[k].record]

\* C15: an incremental update run with a record in the table analyses
\* exactly one window, leaves the records of the table as they are and adds
\* exactly one record if the window is accepted and none otherwise; with an
\* empty table it runs the full scan.
C15_AppendsOne ==
    [][/\ (IncrementalUpdate \/ IncrementalUpdateRaises) =>
             /\ Len(scan_log') = 1
             /\ IF scan_log'[1].outcome = "accepted"
                THEN /\ Len(db_change_points') = Len(db_change_points) + 1
                     /\ SubSeq(db_change_points', 1, Len(db_change_points)) = db_change_points
                     /\ result' = <<db_change_points'[Len(db_change_points')].record>>
                ELSE db_change_points' = db_change_points
       /\ IncrementalFullScan => pc' \in {"generating", "aborted"}
      ]_vars

\* C16: when a full scan completes with a consolidated set, the table holds
\* exactly the records of that set, and none written before the scan.
C16_ScanReplacesTable ==
    (pc = "scanned" /\ consolidated # <<>>) => Persisted = consolidated

(***************************************************************************)
(* Properties of the full pipeline (checked under SpecPipeline).           *)
(***************************************************************************)
\* C17: a full pipeline run whose scan accepts no candidate completes, and
\* every regime row it produces is Normal, whatever runs came before it.
C17_EmptyScanAllNormal ==
    [][(pc = "scanned" /\ detected_change_points = <<>> /\ AssignRegimes) =>
          /\ pc' = "labeled"
          /\ \A k \in 1..Len(regimes') : regimes'[k].regime = "Normal"
      ]_vars

(***************************************************************************)
(* Coverage of the series by the windows (checked under SpecWin).          *)
(***************************************************************************)
\* The observation date lies inside the k-th generated window.
InWindow(d, k) == \E j \in 1..Len(windows[k].window_df) : windows[k].window_df[j] = d

Covered(d) == \E k \in 1..Len(windows) : InWindow(d, k)

\* C18: no day is dropped: every observation date of the series lies inside
\* at least one generated window (step_size < window_size in every
\* configuration of SpecWin).
C18_NoDayDropped ==
    pc = "generated" => \A j \in 1..Len(prices_df) : Covered(prices_df[j])

\* No window was discarded: the windows start at the first date, step_size
\* apart, and the loop ended right after the last of them.
NoneDiscarded ==
    /\ windows # <<>>
    /\ windows[1].start_date = prices_df[1]
    /\ \A k \in 1..(Len(windows) - 1) :
          windows[k + 1].start_date = windows[k].start_date + step_size
    /\ windows[Len(windows)].start_date + step_size + window_size > prices_df[Len(prices_df)]

\* C18 as the code has it: when no window was discarded, the observation
\* dates up to window_size days after the start of the last window lie
\* inside a window, and the later ones, which span fewer than step_size
\* days, lie inside none.
C18_CoveredUpToLastWindow ==
    (pc = "generated" /\ NoneDiscarded) =>
        LET last_end == windows[Len(windows)].start_date + window_size
        IN \A j \in 1..Len(prices_df) :
              /\ prices_df[j] <= last_end => Covered(prices_df[j])
              /\ prices_df[j] > last_end =>
                    /\ ~Covered(prices_df[j])
                    /\ prices_df[j] - last_end < step_size

\* Several windows, none discarded, and the last dates of the series in no
\* window.
C18_Witness ==
    /\ pc = "generated"
    /\ NoneDiscarded
    /\ Len(windows) >= 3
    /\ step_size < window_size
    /\ ~Covered(prices_df[Len(prices_df)])
    /\ Covered(prices_df[Len(prices_df)] - step_size)

(***************************************************************************)
(* The dates of a candidate (checked under SpecScan).                      *)
(***************************************************************************)
\* The observation sequence handed to the sampler for the window that the
\* full scan analysed last: the rows within window_size \div 2 days of the
\* centre of the window.
SampledSlice ==
    LET w == windows[idx]
    IN SelectSeq(prices_df,
                 LAMBDA d : Abs(2 * d - (w.start_date + w.end_date))
                                <= 2 * (window_size \div 2))

\* C19: in a full scan the crisis_start_date and the crisis_end_date of a
\* candidate are the dates of the observations at positions median(tau_1)
\* and median(tau_2) of the sequence the sampler was given for the window.
C19_DatesFromSampledSlice ==
    (pc = "generated" /\ idx >= 1 /\ last_analysis.change_point # NoChangePoint) =>
        /\ last_analysis.change_point.crisis_start_date
               = SampledSlice[MedianIndex(last_analysis.trace.tau_1) + 1]
        /\ last_analysis.change_point.crisis_end_date
               = SampledSlice[MedianIndex(last_analysis.trace.tau_2) + 1]

(***************************************************************************)
(* Overlapping crises (checked under SpecLabel).                           *)
(***************************************************************************)
\* The day lies in one of the three ranges of the crisis record.
InRanges(cp, d) ==
    cp.crisis_start_date - MarginDays <= d /\ d <= cp.crisis_end_date + MarginDays

\* What the crisis record writes on a day of its ranges.
WrittenBy(cp, d) ==
    IF d < cp.crisis_start_date
    THEN [regime |-> "Normal", volatility |-> Num(cp.volatility_pre),
          confidence |-> cp.detection_confidence]
    ELSE IF d <= cp.crisis_end_date
    THEN [regime |-> "Crisis", volatility |-> Num(cp.volatility_crisis),
          confidence |-> cp.detection_confidence]
    ELSE [regime |-> "Recovery", volatility |-> Num(cp.volatility_post),
          confidence |-> cp.detection_confidence]

\* The regime, volatility and confidence of a regime row.
Carried(r) ==
    [regime |-> r.regime, volatility |-> r.volatility, confidence |-> r.confidence]

\* The ranges of record j and of the record k of later start share the day.
OverlapOn(j, k, d) ==
    /\ ChangePoint(j).crisis_start_date < ChangePoint(k).crisis_start_date
    /\ InRanges(ChangePoint(j), d)
    /\ InRanges(ChangePoint(k), d)

\* No record whose ranges hold the day starts later than record k.
LatestOn(k, d) ==
    \A m \in 1..Len(db_change_points) :
        InRanges(ChangePoint(m), d) =>
            ChangePoint(m).crisis_start_date <= ChangePoint(k).crisis_start_date

\* C20: when the ranges of two crisis records overlap on a day, the day
\* carries after assign_regimes the regime, the volatility and the
\* confidence written by the record of the later crisis_start_date (the
\* latest of all the records whose ranges hold the day).
C20_LaterStartWins ==
    Labeled =>
        \A j, k \in 1..Len(db_change_points) :
            \A n \in 1..Len(regimes) :
                (OverlapOn(j, k, regimes[n].date) /\ LatestOn(k, regimes[n].date))
                    => Carried(regimes[n]) = WrittenBy(ChangePoint(k), regimes[n].date)

(***************************************************************************)
(* Ties in the consolidator (checked under SpecCons).                      *)
(***************************************************************************)
\* The members of cluster c whose confidence no member exceeds.
TiedMembers(c) ==
    {m \in Range(cluster_log[c]) :
        \A o \in Range(cluster_log[c]) :
            o.detection_confidence <= m.detection_confidence}

\* Candidate a comes from a window that is not later than the window of b.
NotLaterWindow(a, b) == a.notes.window_start <= b.notes.window_start

\* C21 as stated: when several members of a cluster share the maximal
\* confidence, the record kept is the one produced by the earliest window
\* among the tied members.
C21_TieKeepsEarliestWindow ==
    ConsDone =>
        \A c \in 1..Len(cluster_log) :
            /\ consolidated[c] \in TiedMembers(c)
            /\ \A m \in TiedMembers(c) : NotLaterWindow(consolidated[c], m)

\* C21 amended: when several members of a cluster share the maximal
\* confidence, the record kept is the first of them in the order of the
\* sort: the tied member of earliest crisis_start_date and, among tied
\* members of equal start, the one produced by the earliest window.
C21_TieKeepsEarliestStart ==
    ConsDone =>
        \A c \in 1..Len(cluster_log) :
            /\ consolidated[c] \in TiedMembers(c)
            /\ \A m \in TiedMembers(c) :
                  \/ consolidated[c].crisis_start_date < m.crisis_start_date
                  \/ /\ consolidated[c].crisis_start_date = m.crisis_start_date
                     /\ NotLaterWindow(consolidated[c], m)

\* Two members of one cluster share the maximal confidence, have different
\* starts and a third, tied and of the same start as one of them, comes
\* from a later window.
C21_Witness ==
    /\ ConsDone
    /\ Len(cluster_log) = 1
    /\ Cardinality(TiedMembers(1)) = 3
    /\ \E a, b \in TiedMembers(1) :
          /\ a.crisis_start_date < b.crisis_start_date
          /\ ~NotLaterWindow(a, b)
          /\ consolidated[1] = a
    /\ \E a, b \in TiedMembers(1) :
          a # b /\ a.crisis_start_date = b.crisis_start_date /\ consolidated[1] = a

(***************************************************************************)
(* The fallback baseline (checked under SpecLabel).                        *)
(***************************************************************************)
\* The dates of the series that lie in no range of any crisis record.
UntouchedDates ==
    {market_data[k].date : k \in {n \in 1..Len(market_data) : Untouched(market_data[n].date)}}

\* C22: the fallback baseline volatility is the deviation of the returns of
\* exactly the days that no crisis range wrote; the days of a pre-crisis
\* range do not enter it.
C22_BaselineOverUntouched ==
    (Labeled /\ db_change_points # <<>>) =>
        \A k \in 1..Len(regimes) :
            regimes[k].volatility.kind # "num" =>
                Range(regimes[k].volatility.rows) = UntouchedDates

(***************************************************************************)
(* Termination of the window generator (checked under SpecWinLive).        *)
(***************************************************************************)
\* C23: for every series and every configured window_size and step_size
\* the window generation terminates: the generator is eventually exhausted.
C23_GenerationTerminates == <>(pc = "generated")

(***************************************************************************)
(* One record per event (checked under SpecScan).                          *)
(***************************************************************************)
\* C24: whatever full scans and incremental updates have run, no two
\* records of the persisted crisis table start within 60 days of each
\* other, and no record is in the table twice.
C24_OneRecordPerEvent ==
    \A j, k \in 1..Len(Persisted) :
        j # k =>
            /\ Abs(Persisted[j].crisis_start_date - Persisted[k].crisis_start_date)
                   > OverlapDays
            /\ Persisted[j] # Persisted[k]

(***************************************************************************)
(* Crisis days (checked under SpecLabel).                                  *)
(***************************************************************************)
\* The day lies between the start and the end of the crisis record.
InCrisis(cp, d) == cp.crisis_start_date <= d /\ d <= cp.crisis_end_date

\* C25 as stated: after assign_regimes every day that lies between the
\* start and the end of at least one crisis record is labeled Crisis.
C25_CrisisDaysAreCrisis ==
    Labeled =>
        \A n \in 1..Len(regimes) :
            (\E k \in 1..Len(db_change_points) : InCrisis(ChangePoint(k), regimes[n].date))
                => regimes[n].regime = "Crisis"

\* C25 amended: after assign_regimes a day between the start and the end
\* of a crisis record is labeled Crisis when no record that starts on the
\* same day or later holds it in its pre-crisis or its recovery range.
C25_CrisisUnlessOverwritten ==
    Labeled =>
        \A n \in 1..Len(regimes) :
            \A k \in 1..Len(db_change_points) :
                (/\ InCrisis(ChangePoint(k), regimes[n].date)
                 /\ \A m \in 1..Len(db_change_points) :
                       (/\ ChangePoint(m).crisis_start_date
                               >= ChangePoint(k).crisis_start_date
                        /\ InRanges(ChangePoint(m), regimes[n].date))
                           => InCrisis(ChangePoint(m), regimes[n].date))
                    => regimes[n].regime = "Crisis"

\* The first record's crisis days before the start of the second are
\* Normal, written by the pre-crisis range of the second; its other
\* crisis days, the last included, are Crisis.
C25_Witness ==
    /\ Labeled
    /\ Len(db_change_points) = 2
    /\ ChangePoint(1).crisis_start_date = 40
    /\ ChangePoint(1).crisis_end_date = 50
    /\ ChangePoint(2).crisis_start_date = 45
    /\ \E n \in 1..Len(regimes) : regimes[n].date = 44 /\ regimes[n].regime = "Normal"
    /\ \E n \in 1..Len(regimes) : regimes[n].date = 50 /\ regimes[n].regime = "Crisis"
    /\ \E n \in 1..Len(regimes) : regimes[n].date = 65 /\ regimes[n].regime = "Crisis"

(***************************************************************************)
(* The frame of a new crisis record (checked under SpecRelabel).           *)
(***************************************************************************)
\* The labeler runs again after one change point was added to the table.
Relabeling == pc = "updated" /\ pc' = "labeled"

\* C26: when one crisis record is added and assign_regimes runs again, the
\* regime label changes only on days within 30 days before the start and
\* 30 days after the end of the added record; every other day keeps its
\* label.
C26_OnlyAddedRangesChange ==
    [][Relabeling =>
          \A n \in 1..Len(regimes) :
              ~InRanges(result[1], regimes[n].date)
                  => regimes'[n].regime = regimes[n].regime]_vars

(***************************************************************************)
(* The order of the two breakpoints (checked under SpecScan).              *)
(***************************************************************************)
\* The frame whose index turned the median positions of the last analysis
\* into dates: the generator's window in a full scan, the analysed slice in
\* an incremental update.
LookupWindow ==
    IF pc = "updated"
    THEN EventSlice(prices_df, 2 * (IndexMax(prices_df) - HalfWindow), HalfWindow)
    ELSE windows[idx].window_df

C28_MatchNeverFalsePositive ==
    Scored =>
        \A a \in 1..Len(validation_results.matches) :
            \A b \in 1..Len(validation_results.false_pos_list) :
                LET m == validation_results.matches[a]
                    f == validation_results.false_pos_list[b]
                IN ~(/\ f.detected_start = m.detected_start
                     /\ f.detected_end = m.detected_end
                     /\ f.confidence = m.confidence)

(***************************************************************************)
(* The frame of the fallback (checked under SpecLabel).                    *)
(***************************************************************************)
\* C29: the fallback changes the volatility and the confidence only of days
\* that no crisis range wrote: a day in a range of some crisis record ends
\* with the regime, the volatility and the confidence that one of the
\* records holding it wrote there, whatever those values are, 0 included.
C29_FallbackLeavesWrittenDays ==
    Labeled =>
        \A n \in 1..Len(regimes) :
            ~Untouched(regimes[n].date) =>
                \E k \in 1..Len(db_change_points) :
                    /\ InRanges(ChangePoint(k), regimes[n].date)
                    /\ Carried(regimes[n]) = WrittenBy(ChangePoint(k), regimes[n].date)

(***************************************************************************)
(* Saving the regimes (checked under SpecSave).                            *)
(***************************************************************************)
\* C30: saving regimes is all or nothing: when the save has failed the rows
\* that were in the table before are still there, and at every moment the
\* table holds either those rows or the new ones; a reader never finds the
\* old rows deleted and the new rows not yet inserted.
C30_SaveAllOrNothing ==
    /\ pc = "save_failed" => db_regimes = OldRegimes(market_data)
    /\ db_regimes = OldRegimes(market_data) \/ db_regimes = regimes

====
